---- MODULE Spec2Model ----
(***************************************************************************)
(* funcache: a memoizing decorator with a freshness ("retain hash") check, *)
(* an in-process memory tier (two dicts per wrapped function) and an       *)
(* optional disk tier (two pickle files per call signature).               *)
(*                                                                         *)
(* One wrapped function is modelled.  In Spec a call of the wrapper is one *)
(* atomic step; the caller may mutate objects it was handed; in a disk     *)
(* configuration the run starts from any content of the artifact files.   *)
(* SpecArgShapes calls the wrapper with keyword arguments in two orders    *)
(* and with an unhashable argument.  SpecThreads runs the wrapper from two *)
(* threads, one step per operation on the shared dicts.                    *)
(***************************************************************************)
EXTENDS Integers, Sequences, FiniteSets, TLC

\* ------------------------------------------------------------------ bounds
\* Number of wrapper calls in a run.
MaxCalls == 3
\* Number of caller-side mutations of returned objects in a run.
MaxMut == 1

\* ------------------------------------------------------------ input domains
\* Argument lists the wrapper is called with: (positional tuple, keyword items
\* in call order).
CallArgs ==
    { [args |-> <<"p">>, kwargs |-> <<>>],
      [args |-> <<"q">>, kwargs |-> <<>>] }

\* An argument value that is a list: unlike a str it cannot be hashed.
ListArg == "['x']"

\* Further argument lists: the same keyword arguments in two call orders, and
\* a positional list.
ArgShapes ==
    { [args |-> <<>>, kwargs |-> <<<<"a", "1">>, <<"b", "2">>>>],
      [args |-> <<>>, kwargs |-> <<<<"b", "2">>, <<"a", "1">>>>],
      [args |-> <<ListArg>>, kwargs |-> <<>>] }

\* Tokens a caller-supplied retain_hash_fn may return.
Tokens == {0, 1}

\* Threads that call the wrapper.
Threads == {"t1", "t2"}

\* The argument list the threads call the wrapper with: racing calls have the
\* same signature.
ThreadCallArgs == { [args |-> <<"p">>, kwargs |-> <<>>] }

\* Contents of the objects the wrapped function returns.
Vals == {"v1", "v2"}

\* What a caller-side mutation writes into an object.
Mutated == "mut"

\* What the wrapped function can do on one execution: return a fresh object
\* with some content, or raise.
FnOutcomes == Vals \cup {"raise"}

\* Keys of the two disk artifacts of a record.
ArtifactKeys == {"result", "hash_result"}

VARIABLES
    cfg,                    \* arguments of cache(): retain_hash_fn, return_copy, diskcache_dir
    args_hash_result_map,   \* dict: call signature -> stored token
    args_return_value_map,  \* dict: call signature -> stored object (a reference)
    heap,                   \* objects by identity: [top, cell]
    cells,                  \* nested objects, shared by shallow copies
    disk,                   \* files: <<signature, key>> -> [st, data]
    trace,                  \* log of the wrapper calls made so far
    nmut,                   \* caller mutations made so far
    threads                 \* per thread: where its wrapper call stands, and its locals

vars == <<cfg, args_hash_result_map, args_return_value_map, heap, cells, disk, trace, nmut,
          threads>>

\* ----------------------------------------------------------- configuration
\* The default retain_hash_fn: lambda *args, **kwargs: 0.
DefaultToken == 0

Configs ==
    [retain_hash_fn : {"default", "custom"},
     return_copy    : BOOLEAN,
     diskcache_dir  : {"None", "/cache"}]

\* Python truthiness of diskcache_dir.
Truthy(d) == d # "None"

\* Mutant of retain_hash_fn: the default freshness function is not constant.
retain_hash_fn_not_constant(h) == h

\* hash_result = retain_hash_fn(*args, **kwargs); h is what a custom function
\* returns on this call.
retain_hash_fn(h) ==
    IF cfg.retain_hash_fn = "default" THEN DefaultToken ELSE h

\* call_signature = (module, name, args, tuple(kwargs.items())).
call_signature(a) == <<"mod", "fn", a.args, a.kwargs>>

Signatures == { call_signature(a) : a \in CallArgs }

\* hash(call_signature) succeeds: a tuple is hashable when every element is,
\* down to the positional values and the keyword values.
Hashable(sig) ==
    /\ \A i \in DOMAIN sig[3] : sig[3][i] # ListArg
    /\ \A i \in DOMAIN sig[4] : sig[4][i][2] # ListArg

\* ------------------------------------------------------------------- files
NoFile == [st |-> "absent", data |-> <<>>]
\* A file a writer was stopped in: cut before its first byte, or inside the pickle.
EmptyFile == [st |-> "empty", data |-> <<>>]
TruncatedFile == [st |-> "truncated", data |-> <<>>]
File(d) == [st |-> "ok", data |-> d]

\* ---------------------------------------------------------------- outcomes
\* The result of a step that may raise: exc is "none" or the exception's name.
Ret(v) == [exc |-> "none", val |-> v]
Raise(e) == [exc |-> e, val |-> <<>>]

\* ------------------------------------------------------------ disk helpers
\* _get_cache_path(diskcache_dir, call_signature, key), applied to the
\* positional arguments argv of a call site.  A call with other than three
\* arguments fails to bind; the body uses json, which the module never imports.
_get_cache_path(argv) ==
    IF Len(argv) # 3
    THEN Raise("TypeError")
    ELSE Raise("NameError")

\* _is_in_disk_cache(call_signature, key): os.path.exists(_get_cache_path(call_signature, key)).
_is_in_disk_cache(sig, key, dsk) ==
    LET p == _get_cache_path(<<sig, key>>)
    IN  IF p.exc # "none" THEN p ELSE Ret(dsk[p.val].st # "absent")

\* _get_from_disk_cache(diskcache_dir, call_signature, key), applied to argv:
\* open() fails on a missing file; pickle.load raises EOFError ("Ran out of
\* input") on an empty file and UnpicklingError on one cut inside the pickle.
_get_from_disk_cache(argv, dsk) ==
    IF Len(argv) # 3
    THEN Raise("TypeError")
    ELSE LET p == _get_cache_path(argv)
         IN  IF p.exc # "none" THEN p
             ELSE IF dsk[p.val].st = "absent" THEN Raise("FileNotFoundError")
             ELSE IF dsk[p.val].st = "empty" THEN Raise("EOFError")
             ELSE IF dsk[p.val].st = "truncated" THEN Raise("UnpicklingError")
             ELSE Ret(dsk[p.val].data)

\* _save_to_disk_cache(diskcache_dir, call_signature, key, return_value),
\* applied to argv; the value is the disk after the call.
_save_to_disk_cache(argv, dsk) ==
    IF Len(argv) # 4
    THEN Raise("TypeError")
    ELSE LET p == _get_cache_path(<<argv[1], argv[2], argv[3]>>)
         IN  IF p.exc # "none" THEN p
             ELSE Ret([dsk EXCEPT ![p.val] = File(argv[4])])

\* -------------------------------------------------------------------- heap
\* The content of object o as a caller reads it: its own state and the state
\* of the nested object it refers to.
Value(hp, cl, o) == <<hp[o].top, cl[hp[o].cell]>>

\* copy.copy(o): a new object with the same top-level state that refers to
\* the same nested object.  The value is the heap after the copy; the copy is
\* its last object.
copy_copy(hp, o) == Append(hp, hp[o])

\* A dict with key k set to v.
Put(d, k, v) == [x \in (DOMAIN d) \cup {k} |-> IF x = k THEN v ELSE d[x]]

\* The wrapper's view of the state while one call runs.
Machine ==
    [hmap  |-> args_hash_result_map,
     vmap  |-> args_return_value_map,
     heap  |-> heap,
     cells |-> cells,
     disk  |-> disk]

\* ----------------------------------------------------------------- wrapper
\* Mutant of disk_load: when the record cannot be looked up, its files are
\* removed before the error is raised.
disk_load_purges_record(m, sig, hr) ==
    IF ~Truthy(cfg.diskcache_dir) \/ sig \in DOMAIN m.vmap
    THEN [exc |-> "none", m |-> m, hash_result |-> hr]
    ELSE
    LET there == _is_in_disk_cache(sig, "result", m.disk)
    IN  IF there.exc = "none"
        THEN [exc |-> "none", m |-> m, hash_result |-> hr]
        ELSE [exc |-> there.exc,
              m |-> [m EXCEPT !.disk = [p \in DOMAIN m.disk |->
                                          IF p[2] = sig THEN NoFile ELSE m.disk[p]]],
              hash_result |-> hr]

\* Lines 53-64: if a disk directory is configured and the signature is not in
\* memory, load the disk record into memory.  Only EOFError is caught.  The
\* value is [exc, m, hash_result]: the local hash_result is overwritten by the
\* token read from disk.
disk_load(m, sig, hr) ==
    LET keep == [exc |-> "none", m |-> m, hash_result |-> hr]
    IN  IF ~Truthy(cfg.diskcache_dir) THEN keep
        ELSE IF ~Hashable(sig) THEN [keep EXCEPT !.exc = "TypeError"]
        ELSE IF sig \in DOMAIN m.vmap THEN keep
        ELSE
        LET there == _is_in_disk_cache(sig, "result", m.disk)
        IN  IF there.exc # "none" THEN [keep EXCEPT !.exc = there.exc]
            ELSE IF ~there.val THEN keep
            ELSE
            LET g1 == _get_from_disk_cache(<<sig, "hash_result">>, m.disk)
            IN  IF g1.exc = "EOFError" THEN keep
                ELSE IF g1.exc # "none" THEN [keep EXCEPT !.exc = g1.exc]
                ELSE
                LET hr1 == g1.val[1]
                    g2 == _get_from_disk_cache(<<sig, "result">>, m.disk)
                IN  IF g2.exc = "EOFError"
                    THEN [keep EXCEPT !.hash_result = hr1]
                    ELSE IF g2.exc # "none"
                    THEN [keep EXCEPT !.exc = g2.exc, !.hash_result = hr1]
                    ELSE
                    LET cl == Append(m.cells, g2.val[2])
                        hp == Append(m.heap, [top |-> g2.val[1], cell |-> Len(cl)])
                    IN  [exc |-> "none",
                         hash_result |-> hr1,
                         m |-> [m EXCEPT !.heap = hp,
                                         !.cells = cl,
                                         !.hmap = Put(m.hmap, sig, hr1),
                                         !.vmap = Put(m.vmap, sig, Len(hp))]]

\* Mutant of hash_check: the stored token is not compared.
hash_check_ignores_token(m, sig, hr) == Ret(sig \in DOMAIN m.vmap)

\* Mutant of hash_check: the dicts are searched by equality, so a signature
\* that cannot be hashed is looked up like any other.
hash_check_without_hashing(m, sig, hr) ==
    IF sig \notin DOMAIN m.vmap THEN Ret(FALSE)
    ELSE IF sig \notin DOMAIN m.hmap THEN Raise("KeyError")
    ELSE Ret(hr = m.hmap[sig])

\* Line 68: call_signature in args_return_value_map and
\* hash_result == args_hash_result_map[call_signature].  The dict lookup
\* hashes the signature and raises TypeError when that fails.
hash_check(m, sig, hr) ==
    IF ~Hashable(sig) THEN Raise("TypeError")
    ELSE IF sig \notin DOMAIN m.vmap THEN Ret(FALSE)
    ELSE IF sig \notin DOMAIN m.hmap THEN Raise("KeyError")
    ELSE Ret(hr = m.hmap[sig])

\* Lines 69-71: the stored object, or a shallow copy of it.  The value is
\* [m, res].
hit_result(m, sig) ==
    IF cfg.return_copy
    THEN LET hp == copy_copy(m.heap, m.vmap[sig])
         IN  [m |-> [m EXCEPT !.heap = hp], res |-> Len(hp)]
    ELSE [m |-> m, res |-> m.vmap[sig]]

\* Line 73: the wrapped function returns a new object with content out.  The
\* value is [m, res].
function(m, out) ==
    LET cl == Append(m.cells, out)
        hp == Append(m.heap, [top |-> out, cell |-> Len(cl)])
    IN  [m |-> [m EXCEPT !.heap = hp, !.cells = cl], res |-> Len(hp)]

\* Mutant of store_entry: line 74 is missing, the token is not stored.
store_entry_value_only(m, sig, hr, res) ==
    [m EXCEPT !.vmap = Put(m.vmap, sig, res)]

\* Mutant of store_entry: an existing entry is kept (dict.setdefault).
store_entry_first_wins(m, sig, hr, res) ==
    IF sig \in DOMAIN m.vmap THEN m
    ELSE [m EXCEPT !.hmap = Put(m.hmap, sig, hr), !.vmap = Put(m.vmap, sig, res)]

\* Mutant of store_entry: the dicts are rebuilt with this entry alone.
store_entry_drops_others(m, sig, hr, res) ==
    [m EXCEPT !.hmap = Put(<<>>, sig, hr), !.vmap = Put(<<>>, sig, res)]

\* Mutant of store_token: line 74 has not run when line 75 runs (the two
\* assignments are in the other order).
store_token_deferred(m, sig, hr) == m

\* Line 74: args_hash_result_map[call_signature] = hash_result.
store_token(m, sig, hr) == [m EXCEPT !.hmap = Put(m.hmap, sig, hr)]

\* Line 75: args_return_value_map[call_signature] = res.
store_value(m, sig, res) == [m EXCEPT !.vmap = Put(m.vmap, sig, res)]

\* Lines 74-75: both dicts are overwritten for the signature.
store_entry(m, sig, hr, res) == store_value(store_token(m, sig, hr), sig, res)

\* Mutant of lookup: line 74 runs before line 73, so the token is stored even
\* when the wrapped function raises.
lookup_token_before_call(m, sig, hr, out) ==
    LET chk == hash_check(m, sig, hr)
    IN  IF chk.exc # "none"
        THEN [exc |-> chk.exc, m |-> m, res |-> 0, executed |-> FALSE]
        ELSE IF chk.val
        THEN LET g == hit_result(m, sig)
             IN  [exc |-> "none", m |-> g.m, res |-> g.res, executed |-> FALSE]
        ELSE IF out = "raise"
        THEN [exc |-> "FnError",
              m |-> [m EXCEPT !.hmap = Put(m.hmap, sig, hr)],
              res |-> 0,
              executed |-> TRUE]
        ELSE LET g == function(m, out)
             IN  [exc |-> "none",
                  m |-> store_entry(g.m, sig, hr, g.res),
                  res |-> g.res,
                  executed |-> TRUE]

\* Lines 68-75: a hit hands out the stored result; otherwise the wrapped
\* function runs and, unless it raises, its result is stored under hash_result.
\* The value is [exc, m, res, executed].
lookup(m, sig, hr, out) ==
    LET chk == hash_check(m, sig, hr)
    IN  IF chk.exc # "none"
        THEN [exc |-> chk.exc, m |-> m, res |-> 0, executed |-> FALSE]
        ELSE IF chk.val
        THEN LET g == hit_result(m, sig)
             IN  [exc |-> "none", m |-> g.m, res |-> g.res, executed |-> FALSE]
        ELSE IF out = "raise"
        THEN [exc |-> "FnError", m |-> m, res |-> 0, executed |-> TRUE]
        ELSE LET g == function(m, out)
             IN  [exc |-> "none",
                  m |-> store_entry(g.m, sig, hr, g.res),
                  res |-> g.res,
                  executed |-> TRUE]

\* Lines 77-79: write the record unless a result file exists.  The value is
\* [exc, disk]; a failure of the second write leaves the first on disk.
disk_save(m, sig, res, hr) ==
    IF ~Truthy(cfg.diskcache_dir) THEN [exc |-> "none", disk |-> m.disk]
    ELSE
    LET there == _is_in_disk_cache(sig, "result", m.disk)
    IN  IF there.exc # "none" THEN [exc |-> there.exc, disk |-> m.disk]
        ELSE IF there.val THEN [exc |-> "none", disk |-> m.disk]
        ELSE
        LET s1 == _save_to_disk_cache(<<sig, "result", Value(m.heap, m.cells, res)>>, m.disk)
        IN  IF s1.exc # "none" THEN [exc |-> s1.exc, disk |-> m.disk]
            ELSE
            LET s2 == _save_to_disk_cache(<<sig, "hash_result", <<hr>>>>, s1.val)
            IN  IF s2.exc # "none" THEN [exc |-> s2.exc, disk |-> s1.val]
                ELSE [exc |-> "none", disk |-> s2.val]

\* The log entry of a call before anything has happened: the signature, the
\* token retain_hash_fn returned, what memory and disk held for the signature.
CallRecord(m, sig, hr) ==
    [sig      |-> sig,
     tok      |-> hr,
     preTok   |-> IF sig \in DOMAIN m.hmap THEN <<m.hmap[sig]>> ELSE <<>>,
     preObj   |-> IF sig \in DOMAIN m.vmap THEN m.vmap[sig] ELSE 0,
     preDisk  |-> [k \in ArtifactKeys |-> m.disk[<<cfg.diskcache_dir, sig, k>>]],
     executed |-> FALSE,
     outcome  |-> "return",
     res      |-> 0,
     fres     |-> 0,
     retVal   |-> <<>>]

\* Line 81: return res.  lk is what lines 68-75 left, sv what lines 77-79 did.
\* The value is [m, rec]: the state the call leaves and its log entry.
wrapper_return(rec, lk, sv) ==
    [m   |-> [lk.m EXCEPT !.disk = sv.disk],
     rec |-> IF sv.exc # "none"
             THEN [rec EXCEPT !.executed = lk.executed,
                              !.fres = IF lk.executed THEN lk.res ELSE 0,
                              !.outcome = sv.exc]
             ELSE [rec EXCEPT !.executed = lk.executed,
                              !.fres = IF lk.executed THEN lk.res ELSE 0,
                              !.res = lk.res,
                              !.retVal = Value(lk.m.heap, lk.m.cells, lk.res)]]

\* Lines 77-81, reached unless lines 68-75 raised.
wrapper_save(sig, hr, rec, lk) ==
    IF lk.exc # "none"
    THEN [m |-> lk.m, rec |-> [rec EXCEPT !.executed = lk.executed, !.outcome = lk.exc]]
    ELSE wrapper_return(rec, lk, disk_save(lk.m, sig, lk.res, hr))

\* Lines 66-81, reached unless lines 53-64 raised; the token compared and
\* stored is the local hash_result as lines 53-64 left it.
wrapper_lookup(sig, out, rec, ld) ==
    IF ld.exc # "none"
    THEN [m |-> ld.m, rec |-> [rec EXCEPT !.outcome = ld.exc]]
    ELSE wrapper_save(sig, ld.hash_result, rec, lookup(ld.m, sig, ld.hash_result, out))

\* Lines 53-81 for a signature and a hash_result.
wrapper_body(sig, hr, out) ==
    wrapper_lookup(sig, out, CallRecord(Machine, sig, hr), disk_load(Machine, sig, hr))

\* wrapper(*args, **kwargs), lines 49-81, for arguments a, when a custom
\* retain_hash_fn returns h and the wrapped function does out.
wrapper(a, h, out) == wrapper_body(call_signature(a), retain_hash_fn(h), out)

\* ---------------------------------------------------------- thread locals
\* A thread that is not inside the wrapper.
Idle ==
    [pc |-> "idle", a |-> <<>>, hashCalls |-> <<>>, sig |-> <<>>,
     hash_result |-> 0, res |-> 0, rec |-> <<>>]

\* Mutant of begin_call: when the signature has an entry, retain_hash_fn is
\* not called and the stored token is taken as hash_result.
begin_call_reuses_stored_token(a, h) ==
    LET sig == call_signature(a)
        cached == sig \in DOMAIN args_hash_result_map
        hr == IF cached THEN args_hash_result_map[sig] ELSE retain_hash_fn(h)
    IN  [pc |-> "load", a |-> <<a>>,
         hashCalls |-> IF cached THEN <<>> ELSE <<a>>,
         sig |-> sig, hash_result |-> hr, res |-> 0,
         rec |-> <<CallRecord(Machine, sig, hr)>>]

\* Lines 50-51: the locals of a call with arguments a after retain_hash_fn
\* has been called with them (hashCalls lists the argument lists it was
\* called with) and the signature has been built.
begin_call(a, h) ==
    [pc |-> "load", a |-> <<a>>, hashCalls |-> <<a>>,
     sig |-> call_signature(a), hash_result |-> retain_hash_fn(h), res |-> 0,
     rec |-> <<CallRecord(Machine, call_signature(a), retain_hash_fn(h))>>]

\* Line 68, left operand: call_signature in args_return_value_map.
in_memory(m, sig) ==
    IF ~Hashable(sig) THEN Raise("TypeError") ELSE Ret(sig \in DOMAIN m.vmap)

\* ------------------------------------------------------------------- steps
\* Paths of the artifact files under the configured directory.
Paths == { <<cfg.diskcache_dir, s, k>> : s \in Signatures, k \in ArtifactKeys }

\* What another process, or an earlier run, can leave in an artifact file.
FileContents(k) ==
    IF k = "result"
    THEN {NoFile, EmptyFile, TruncatedFile} \cup { File(<<v, v>>) : v \in {"v1"} }
    ELSE {NoFile, EmptyFile, TruncatedFile} \cup { File(<<t>>) : t \in Tokens }

\* Disk contents an earlier process, a test or an interrupted writer can have
\* left under the configured directory; without a directory there are no files.
DiskStates ==
    IF Truthy(cfg.diskcache_dir)
    THEN { d \in [Paths -> UNION { FileContents(k) : k \in ArtifactKeys }] :
             \A p \in Paths : d[p] \in FileContents(p[3]) }
    ELSE { [p \in Paths |-> NoFile] }

Init ==
    /\ cfg \in Configs
    /\ args_hash_result_map = <<>>
    /\ args_return_value_map = <<>>
    /\ heap = <<>>
    /\ cells = <<>>
    /\ disk \in DiskStates
    /\ trace = <<>>
    /\ nmut = 0
    /\ threads = [t \in Threads |-> Idle]

\* One call of the wrapped function.
Call(a, h, out) ==
    /\ Len(trace) < MaxCalls
    /\ \E r \in {wrapper(a, h, out)} :
           /\ args_hash_result_map' = r.m.hmap
           /\ args_return_value_map' = r.m.vmap
           /\ heap' = r.m.heap
           /\ cells' = r.m.cells
           /\ disk' = r.m.disk
           /\ trace' = Append(trace, r.rec)
    /\ UNCHANGED <<cfg, nmut, threads>>

\* Objects the caller holds: those the calls so far returned.
Held == { trace[i].res : i \in 1..Len(trace) } \ {0}

\* The caller changes the top-level state of an object it was handed
\* (e.g. appends to a returned list).
MutateTop(o) ==
    /\ nmut < MaxMut
    /\ o \in Held
    /\ heap[o].top # Mutated
    /\ heap' = [heap EXCEPT ![o].top = Mutated]
    /\ nmut' = nmut + 1
    /\ UNCHANGED <<cfg, args_hash_result_map, args_return_value_map, cells, disk, trace,
                   threads>>

\* The caller changes an object nested in one it was handed
\* (e.g. appends to a list inside a returned dict).
MutateNested(o) ==
    /\ nmut < MaxMut
    /\ o \in Held
    /\ cells[heap[o].cell] # Mutated
    /\ cells' = [cells EXCEPT ![heap[o].cell] = Mutated]
    /\ nmut' = nmut + 1
    /\ UNCHANGED <<cfg, args_hash_result_map, args_return_value_map, heap, disk, trace,
                   threads>>

Next ==
    \/ \E a \in CallArgs, h \in Tokens, out \in FnOutcomes : Call(a, h, out)
    \/ \E o \in Held : MutateTop(o)
    \/ \E o \in Held : MutateNested(o)

Spec == Init /\ [][Next]_vars

\* ------------------------------------------------- further argument shapes
\* Runs that call the wrapper with the argument lists of ArgShapes, in every
\* configuration, from an empty cache directory.
ArgShapePaths ==
    { <<cfg.diskcache_dir, call_signature(a), k>> : a \in ArgShapes, k \in ArtifactKeys }

InitArgShapes ==
    /\ cfg \in Configs
    /\ args_hash_result_map = <<>>
    /\ args_return_value_map = <<>>
    /\ heap = <<>>
    /\ cells = <<>>
    /\ disk = [p \in ArgShapePaths |-> NoFile]
    /\ trace = <<>>
    /\ nmut = 0
    /\ threads = [t \in Threads |-> Idle]

NextArgShapes == \E a \in ArgShapes, h \in Tokens, out \in FnOutcomes : Call(a, h, out)

SpecArgShapes == InitArgShapes /\ [][NextArgShapes]_vars

\* ----------------------------------------------------------------- threads
\* Several threads call the same wrapper.  A thread switch can fall between
\* any two operations on the shared dicts, so a call is a sequence of steps:
\* lines 50-51, lines 53-64, the two operands of line 68, lines 69-81 of a
\* hit, line 73, line 74, lines 75-81 of a miss.
InitThreads ==
    /\ cfg \in Configs
    /\ args_hash_result_map = <<>>
    /\ args_return_value_map = <<>>
    /\ heap = <<>>
    /\ cells = <<>>
    /\ disk = [p \in Paths |-> NoFile]
    /\ trace = <<>>
    /\ nmut = 0
    /\ threads = [t \in Threads |-> Idle]

\* The calls begun so far.
Begun == Len(trace) + Cardinality({ t \in Threads : threads[t].pc # "idle" })

\* Thread t leaves the wrapper; r is the log entry of its call.
Leave(t, r) ==
    /\ trace' = Append(trace, r)
    /\ threads' = [threads EXCEPT ![t] = Idle]

\* Thread t stays in the wrapper with locals l.
Goto(t, l) ==
    /\ trace' = trace
    /\ threads' = [threads EXCEPT ![t] = l]

\* The shared state becomes m.
Becomes(m) ==
    /\ args_hash_result_map' = m.hmap
    /\ args_return_value_map' = m.vmap
    /\ heap' = m.heap
    /\ cells' = m.cells
    /\ disk' = m.disk

\* Lines 50-51.
T_Begin(t, a, h) ==
    /\ threads[t].pc = "idle"
    /\ Begun < MaxCalls
    /\ Goto(t, begin_call(a, h))
    /\ UNCHANGED <<cfg, args_hash_result_map, args_return_value_map, heap, cells, disk, nmut>>

\* Lines 53-64.
T_Load(t) ==
    /\ threads[t].pc = "load"
    /\ \E ld \in {disk_load(Machine, threads[t].sig, threads[t].hash_result)} :
         /\ Becomes(ld.m)
         /\ IF ld.exc # "none"
            THEN Leave(t, [threads[t].rec[1] EXCEPT !.outcome = ld.exc])
            ELSE Goto(t, [threads[t] EXCEPT !.pc = "in", !.hash_result = ld.hash_result])
    /\ UNCHANGED <<cfg, nmut>>

\* Line 68, left operand.
T_In(t) ==
    /\ threads[t].pc = "in"
    /\ \E chk \in {in_memory(Machine, threads[t].sig)} :
         IF chk.exc # "none"
         THEN Leave(t, [threads[t].rec[1] EXCEPT !.outcome = chk.exc])
         ELSE Goto(t, [threads[t] EXCEPT !.pc = IF chk.val THEN "cmp" ELSE "call"])
    /\ UNCHANGED <<cfg, args_hash_result_map, args_return_value_map, heap, cells, disk, nmut>>

\* Line 68, right operand, evaluated on the dicts as they are now.
T_Cmp(t) ==
    /\ threads[t].pc = "cmp"
    /\ \E chk \in {hash_check(Machine, threads[t].sig, threads[t].hash_result)} :
         IF chk.exc # "none"
         THEN Leave(t, [threads[t].rec[1] EXCEPT !.outcome = chk.exc])
         ELSE Goto(t, [threads[t] EXCEPT !.pc = IF chk.val THEN "read" ELSE "call"])
    /\ UNCHANGED <<cfg, args_hash_result_map, args_return_value_map, heap, cells, disk, nmut>>

\* Lines 69-71 and 77-81: the hit reads the value stored now and returns.
T_Read(t) ==
    /\ threads[t].pc = "read"
    /\ \E g \in {hit_result(Machine, threads[t].sig)} :
         \E r \in {wrapper_save(threads[t].sig, threads[t].hash_result, threads[t].rec[1],
                                [exc |-> "none", m |-> g.m, res |-> g.res,
                                 executed |-> FALSE])} :
           /\ Becomes(r.m)
           /\ Leave(t, r.rec)
    /\ UNCHANGED <<cfg, nmut>>

\* Line 73.
T_Call(t, out) ==
    /\ threads[t].pc = "call"
    /\ IF out = "raise"
       THEN /\ Leave(t, [threads[t].rec[1] EXCEPT !.executed = TRUE, !.outcome = "FnError"])
            /\ UNCHANGED <<heap, cells>>
       ELSE \E g \in {function(Machine, out)} :
              /\ heap' = g.m.heap
              /\ cells' = g.m.cells
              /\ Goto(t, [threads[t] EXCEPT !.pc = "store_token", !.res = g.res])
    /\ UNCHANGED <<cfg, args_hash_result_map, args_return_value_map, disk, nmut>>

\* Line 74.
T_StoreToken(t) ==
    /\ threads[t].pc = "store_token"
    /\ Becomes(store_token(Machine, threads[t].sig, threads[t].hash_result))
    /\ Goto(t, [threads[t] EXCEPT !.pc = "store_value"])
    /\ UNCHANGED <<cfg, nmut>>

\* Lines 75-81.
T_StoreValue(t) ==
    /\ threads[t].pc = "store_value"
    /\ \E r \in {wrapper_save(threads[t].sig, threads[t].hash_result, threads[t].rec[1],
                              [exc |-> "none",
                               m |-> store_value(Machine, threads[t].sig, threads[t].res),
                               res |-> threads[t].res,
                               executed |-> TRUE])} :
         /\ Becomes(r.m)
         /\ Leave(t, r.rec)
    /\ UNCHANGED <<cfg, nmut>>

NextThreads ==
    \/ \E t \in Threads, a \in ThreadCallArgs, h \in Tokens : T_Begin(t, a, h)
    \/ \E t \in Threads : T_Load(t)
    \/ \E t \in Threads : T_In(t)
    \/ \E t \in Threads : T_Cmp(t)
    \/ \E t \in Threads : T_Read(t)
    \/ \E t \in Threads, out \in FnOutcomes : T_Call(t, out)
    \/ \E t \in Threads : T_StoreToken(t)
    \/ \E t \in Threads : T_StoreValue(t)

SpecThreads == InitThreads /\ [][NextThreads]_vars

\* ------------------------------------------------------------ observations
\* Readings of the call log shared by the properties below.
MemoryOnly == ~Truthy(cfg.diskcache_dir)

\* Call i returned a stored value without running the wrapped function.
IsHit(t, i) == t[i].outcome = "return" /\ ~t[i].executed

\* Call i ran the wrapped function, which returned.
IsReturnedMiss(t, i) == t[i].outcome = "return" /\ t[i].executed

\* The calls before call i that had the same signature.
Earlier(t, i) == { j \in 1..(i - 1) : t[j].sig = t[i].sig }

\* The largest element of a non-empty set of call indexes.
Latest(S) == CHOOSE j \in S : \A k \in S : k <= j

\* The first call made with the signature of call i.
FirstOf(t, i) == CHOOSE j \in 1..i : t[j].sig = t[i].sig /\ Earlier(t, j) = {}

\* All calls with the signature of call i, up to i, computed the same token.
StableRun(t, i) == \A j \in Earlier(t, i) : t[j].tok = t[i].tok

\* Executions of the wrapped function for the signature of call i, up to i.
Execs(t, i) == Cardinality({ j \in Earlier(t, i) \cup {i} : t[j].executed })

\* ------------------------------------------------------------------ claims
\* C1: memory-only wrapper, wrapped function that returns a result for these
\* arguments: while every call with a signature computes the same token, the
\* function has run exactly once for it, on the first call, and each call
\* returns a value equal to the first call's result (the object the first
\* call handed out, as it is when the later call returns).
C1_HitConsistency ==
    [][ (Len(trace') = Len(trace) + 1 /\ MemoryOnly) =>
          LET i == Len(trace')
              f == FirstOf(trace', i)
          IN  (StableRun(trace', i) /\ trace'[f].outcome = "return") =>
                /\ trace'[i].outcome = "return"
                /\ trace'[f].executed
                /\ Execs(trace', i) = 1
                /\ Value(heap', cells', trace'[i].res)
                     = Value(heap', cells', trace'[f].res) ]_vars

\* C1 witness: a second call with the same signature and token was a hit.
C1_Witness ==
    /\ MemoryOnly
    /\ \E i \in 1..Len(trace) :
         /\ Earlier(trace, i) # {}
         /\ StableRun(trace, i)
         /\ IsReturnedMiss(trace, FirstOf(trace, i))
         /\ IsHit(trace, i)
         /\ trace[i].retVal = trace[FirstOf(trace, i)].retVal

\* C2: memory-only wrapper: a call whose token differs from the token stored
\* for its signature runs the wrapped function, and what the call returns is
\* the object that run produced, not the stored one.
C2_Invalidation ==
    MemoryOnly =>
      \A i \in 1..Len(trace) :
        (trace[i].preTok # <<>> /\ trace[i].preTok[1] # trace[i].tok) =>
          /\ trace[i].executed
          /\ trace[i].outcome \in {"return", "FnError"}
          /\ trace[i].outcome = "return" =>
               /\ trace[i].res = trace[i].fres
               /\ trace[i].res # trace[i].preObj
               /\ \A j \in 1..(i - 1) : trace[j].res # trace[i].res

\* C2 witness: a stale entry was recomputed and the new value differs from
\* the one returned under the old token.
C2_Witness ==
    /\ MemoryOnly
    /\ \E i \in 1..Len(trace) :
         /\ trace[i].preTok # <<>>
         /\ trace[i].preTok[1] # trace[i].tok
         /\ IsReturnedMiss(trace, i)
         /\ trace[i].retVal # trace[Latest(Earlier(trace, i))].retVal

\* Both artifacts of the disk record call r found are present and readable.
DiskComplete(r) ==
    r.preDisk["result"].st = "ok" /\ r.preDisk["hash_result"].st = "ok"

\* C3: in any configuration a call returns a stored value without running
\* the wrapped function only if its fresh token equals the token stored with
\* that value (memory's, or the disk record's when the call finds the memory
\* tier empty), and a complete disk record whose token differs from the fresh
\* token leads to recomputation.
C3_HitOnlyIfFresh ==
    \A i \in 1..Len(trace) :
      /\ IsHit(trace, i) =>
           IF trace[i].preObj # 0
           THEN trace[i].preTok = <<trace[i].tok>>
           ELSE /\ DiskComplete(trace[i])
                /\ trace[i].preDisk["hash_result"].data = <<trace[i].tok>>
      /\ ( /\ Truthy(cfg.diskcache_dir)
           /\ trace[i].preObj = 0
           /\ DiskComplete(trace[i])
           /\ trace[i].preDisk["hash_result"].data # <<trace[i].tok>> ) =>
           /\ trace[i].executed
           /\ trace[i].outcome \in {"return", "FnError"}

\* The calls before call i, with its signature, that ran the wrapped function.
Misses(t, i) == { j \in Earlier(t, i) : t[j].executed }

\* The calls before call i, with its signature, whose run of the wrapped
\* function returned.
ReturnedMisses(t, i) == { j \in Earlier(t, i) : IsReturnedMiss(t, j) }

\* Call i is the third call with its signature and the three calls computed
\* tokens T1, T2, T1 with T1 # T2.
ThirdOfT1T2T1(t, i) ==
    /\ Cardinality(Earlier(t, i)) = 2
    /\ t[FirstOf(t, i)].tok = t[i].tok
    /\ t[Latest(Earlier(t, i))].tok # t[i].tok

\* C4 as claimed: memory-only wrapper: a call is a hit exactly when its token
\* equals the token of the most recent miss for its signature, and three
\* calls under tokens T1, T2, T1 run the wrapped function three times.
C4_SingleSlotAnyMiss ==
    MemoryOnly =>
      \A i \in 1..Len(trace) :
        /\ ~trace[i].executed <=>
             /\ Misses(trace, i) # {}
             /\ trace[Latest(Misses(trace, i))].tok = trace[i].tok
        /\ ThirdOfT1T2T1(trace, i) => Execs(trace, i) = 3

\* C4 as amended: memory-only wrapper: the memory tier holds, per signature,
\* exactly the entry of the most recent miss whose run returned; a call is a
\* hit exactly when its token equals that miss's token; three calls under
\* tokens T1, T2, T1 run the wrapped function three times when the second
\* call's run returns.
C4_SingleSlot ==
    MemoryOnly =>
      /\ DOMAIN args_hash_result_map = DOMAIN args_return_value_map
      /\ \A i \in 1..Len(trace) :
           /\ ~trace[i].executed <=>
                /\ ReturnedMisses(trace, i) # {}
                /\ trace[Latest(ReturnedMisses(trace, i))].tok = trace[i].tok
           /\ ~trace[i].executed => IsHit(trace, i)
           /\ ( /\ ThirdOfT1T2T1(trace, i)
                /\ trace[Latest(Earlier(trace, i))].outcome = "return" ) =>
                Execs(trace, i) = 3
      /\ \A i \in 1..Len(trace) :
           LET R == { j \in 1..Len(trace) :
                        trace[j].sig = trace[i].sig /\ IsReturnedMiss(trace, j) }
           IN  IF R = {}
               THEN trace[i].sig \notin DOMAIN args_return_value_map
               ELSE /\ trace[i].sig \in DOMAIN args_return_value_map
                    /\ args_hash_result_map[trace[i].sig] = trace[Latest(R)].tok
                    /\ args_return_value_map[trace[i].sig] = trace[Latest(R)].fres

\* C4 witness: three calls under T1, T2, T1, each of which ran the function
\* and returned.
C4_Witness ==
    /\ MemoryOnly
    /\ \E i \in 1..Len(trace) :
         /\ ThirdOfT1T2T1(trace, i)
         /\ \A j \in Earlier(trace, i) \cup {i} : IsReturnedMiss(trace, j)

\* C5: with return_copy, mutating a result an earlier call returned does not
\* change what a later hit returns: a hit returns the value the wrapped
\* function computed for the entry.
C5_CopyIsolation ==
    cfg.return_copy =>
      \A i \in 1..Len(trace) :
        IsHit(trace, i) =>
          /\ ReturnedMisses(trace, i) # {}
          /\ trace[i].retVal = trace[Latest(ReturnedMisses(trace, i))].retVal

\* C6 as claimed: with the default retain_hash_fn the wrapped function runs
\* at most once per signature.
C6_AtMostOnce ==
    cfg.retain_hash_fn = "default" =>
      \A i \in 1..Len(trace) : Execs(trace, i) <= 1

\* C6 as amended: with the default retain_hash_fn, once a run of the wrapped
\* function has returned for a signature, no later call with that signature
\* runs it again (every later call is served from the entry, or raises
\* before reaching the function).
C6_DefaultNeverStale ==
    cfg.retain_hash_fn = "default" =>
      \A i \in 1..Len(trace) :
        ReturnedMisses(trace, i) # {} => ~trace[i].executed

\* C6 witness: default retain_hash_fn; a run raised, the next run returned,
\* and a later call with the same signature was a hit.
C6_Witness ==
    /\ cfg.retain_hash_fn = "default"
    /\ \E i \in 1..Len(trace) :
         /\ IsHit(trace, i)
         /\ \E j \in Earlier(trace, i) : trace[j].outcome = "FnError"
         /\ ReturnedMisses(trace, i) # {}

\* C7: when the wrapped function raises during a miss, that exception is the
\* call's outcome and nothing is stored: both dicts, the objects and the disk
\* are as before the call; and a call that follows a raising call with the
\* same signature and the same token runs the wrapped function again.
C7_FailureStoresNothing ==
    [][ Len(trace') = Len(trace) + 1 =>
          LET i == Len(trace')
          IN  /\ (trace'[i].executed /\ trace'[i].outcome # "return") =>
                   /\ trace'[i].outcome = "FnError"
                   /\ UNCHANGED <<args_hash_result_map, args_return_value_map,
                                  heap, cells, disk>>
              /\ ( /\ Earlier(trace', i) # {}
                   /\ trace'[Latest(Earlier(trace', i))].outcome = "FnError"
                   /\ trace'[Latest(Earlier(trace', i))].tok = trace'[i].tok ) =>
                   trace'[i].executed ]_vars

\* C7 witness: the wrapped function raised while a stale entry was stored,
\* the entry is still the stale one, and the next call with the same token
\* ran the function again.
C7_Witness ==
    \E i \in 1..Len(trace) :
      /\ Earlier(trace, i) # {}
      /\ trace[Latest(Earlier(trace, i))].outcome = "FnError"
      /\ trace[Latest(Earlier(trace, i))].preObj # 0
      /\ trace[Latest(Earlier(trace, i))].tok = trace[i].tok
      /\ trace[i].preObj = trace[Latest(Earlier(trace, i))].preObj
      /\ trace[i].preTok = trace[Latest(Earlier(trace, i))].preTok
      /\ trace[i].executed

\* C8: with a disk directory, no memory entry for the signature and a
\* complete disk record whose token equals the fresh token, the call is a
\* hit: it returns the stored value and does not run the wrapped function.
C8_DiskWarmStart ==
    \A i \in 1..Len(trace) :
      ( /\ Truthy(cfg.diskcache_dir)
        /\ trace[i].preObj = 0
        /\ DiskComplete(trace[i])
        /\ trace[i].preDisk["hash_result"].data = <<trace[i].tok>> ) =>
        /\ IsHit(trace, i)
        /\ trace[i].retVal = trace[i].preDisk["result"].data

\* C9: with a disk directory and no disk record for the signature, a call
\* that misses leaves both artifacts on disk: the value artifact holds the
\* result the call returned, the token artifact the token the call computed
\* (unless the wrapped function itself raised).
C9_MissPersists ==
    [][ Len(trace') = Len(trace) + 1 =>
          LET i == Len(trace')
              s == trace'[i].sig
          IN  ( /\ Truthy(cfg.diskcache_dir)
                /\ trace'[i].preObj = 0
                /\ trace'[i].preDisk["result"].st = "absent"
                /\ trace'[i].preDisk["hash_result"].st = "absent" ) =>
                \/ trace'[i].outcome = "FnError"
                \/ /\ IsReturnedMiss(trace', i)
                   /\ disk'[<<cfg.diskcache_dir, s, "result">>]
                        = File(trace'[i].retVal)
                   /\ disk'[<<cfg.diskcache_dir, s, "hash_result">>]
                        = File(<<trace'[i].tok>>) ]_vars

\* C10: with a disk directory, no memory entry for the signature and a disk
\* record that has the value artifact but a missing or truncated token
\* artifact, the call is a miss: it runs the wrapped function and returns its
\* result, and no error of the cache layer reaches the caller.
C10_CorruptionTolerance ==
    \A i \in 1..Len(trace) :
      ( /\ Truthy(cfg.diskcache_dir)
        /\ trace[i].preObj = 0
        /\ trace[i].preDisk["result"].st = "ok"
        /\ trace[i].preDisk["hash_result"].st \in {"absent", "empty", "truncated"} ) =>
        /\ trace[i].executed
        /\ trace[i].outcome \in {"return", "FnError"}
        /\ trace[i].outcome = "return" => trace[i].res = trace[i].fres

C12_DiskFailureSwallowed ==
    [][ (Len(trace') = Len(trace) + 1 /\ Truthy(cfg.diskcache_dir)) =>
          LET i == Len(trace')
              s == trace'[i].sig
          IN  /\ trace'[i].outcome \in {"return", "FnError"}
              /\ IsReturnedMiss(trace', i) =>
                   /\ s \in DOMAIN args_return_value_map'
                   /\ args_return_value_map'[s] = trace'[i].fres
                   /\ args_hash_result_map'[s] = trace'[i].tok ]_vars

\* The arguments of two signatures are equal: the same positional values and
\* the same keyword arguments, in whatever order they were written.
EqualArguments(s1, s2) ==
    /\ s1[3] = s2[3]
    /\ { s1[4][k] : k \in DOMAIN s1[4] } = { s2[4][k] : k \in DOMAIN s2[4] }

\* C13: two calls with the same function and equal arguments, the keyword
\* arguments possibly written in a different order, have equal signatures;
\* so in a memory-only wrapper, when the first returned and the second
\* computes the same token, the second is a hit.
C13_KeywordOrder ==
    \A i \in 2..Len(trace) :
      EqualArguments(trace[i - 1].sig, trace[i].sig) =>
        /\ trace[i].sig = trace[i - 1].sig
        /\ ( /\ MemoryOnly
             /\ trace[i - 1].outcome = "return"
             /\ trace[i].tok = trace[i - 1].tok ) => IsHit(trace, i)

\* C20: a call whose signature cannot be used as a key ends with the error
\* of the failed key derivation: the wrapped function is not run and both
\* dicts, the objects and the disk are as before the call.
C20_UnusableArguments ==
    [][ Len(trace') = Len(trace) + 1 =>
          LET i == Len(trace')
          IN  ~Hashable(trace'[i].sig) =>
                /\ trace'[i].outcome = "TypeError"
                /\ ~trace'[i].executed
                /\ UNCHANGED <<args_hash_result_map, args_return_value_map,
                               heap, cells, disk>> ]_vars

\* C20 witness: memory-only wrapper holding an entry; a call with a list
\* argument raised TypeError and the entry is still there.
C20_Witness ==
    /\ MemoryOnly
    /\ \E i \in 2..Len(trace) :
         /\ ~Hashable(trace[i].sig)
         /\ trace[i].outcome = "TypeError"
         /\ IsReturnedMiss(trace, i - 1)
         /\ trace[i - 1].sig \in DOMAIN args_return_value_map

\* C17: a call touches the memory entry of its own signature only, and no
\* step removes an entry: every signature that has an entry keeps one, and an
\* entry of a signature other than the call's keeps its token, its object and
\* that object's content, whatever the call's outcome.
C17_OtherEntriesKept ==
    [][ /\ DOMAIN args_return_value_map \subseteq DOMAIN args_return_value_map'
        /\ DOMAIN args_hash_result_map \subseteq DOMAIN args_hash_result_map'
        /\ Len(trace') = Len(trace) + 1 =>
             \A s \in DOMAIN args_return_value_map :
               s # trace'[Len(trace')].sig =>
                 /\ args_return_value_map'[s] = args_return_value_map[s]
                 /\ args_hash_result_map'[s] = args_hash_result_map[s]
                 /\ Value(heap', cells', args_return_value_map'[s])
                      = Value(heap, cells, args_return_value_map[s]) ]_vars

\* C17 witness: a call stored an entry for its signature while another
\* signature had one, and the other entry is the one its own miss stored.
C17_Witness ==
    \E i \in 1..Len(trace) :
      \E j \in 1..(i - 1) :
        /\ trace[j].sig # trace[i].sig
        /\ IsReturnedMiss(trace, j)
        /\ IsReturnedMiss(trace, i)
        /\ args_return_value_map[trace[i].sig] = trace[i].fres
        /\ args_return_value_map[trace[j].sig] = trace[j].fres
        /\ args_hash_result_map[trace[j].sig] = trace[j].tok

\* Call r found nothing to serve: no memory entry and no disk artifact for
\* its signature, or a memory entry stored under another token.
FoundNothingFresh(r) ==
    \/ /\ r.preObj = 0
       /\ \A k \in ArtifactKeys : r.preDisk[k].st = "absent"
    \/ /\ r.preObj # 0
       /\ r.preTok # <<r.tok>>

\* C15: in any configuration, after a call that found nothing fresh for its
\* signature (a miss), unless the wrapped function raised, the memory entry
\* of the signature is the token the call computed at its start together
\* with the object its run of the wrapped function produced.
C15_MissStoresFreshEntry ==
    [][ Len(trace') = Len(trace) + 1 =>
          LET i == Len(trace')
              s == trace'[i].sig
          IN  (FoundNothingFresh(trace'[i]) /\ trace'[i].outcome # "FnError") =>
                /\ IsReturnedMiss(trace', i)
                /\ s \in DOMAIN args_return_value_map'
                /\ s \in DOMAIN args_hash_result_map'
                /\ args_hash_result_map'[s] = trace'[i].tok
                /\ args_return_value_map'[s] = trace'[i].fres ]_vars

ComputedUnder(sig, tok, v) ==
    \/ \E j \in 1..Len(trace) :
         /\ IsReturnedMiss(trace, j)
         /\ trace[j].sig = sig
         /\ trace[j].tok = tok
         /\ trace[j].retVal = v
    \/ \E u \in Threads :
         /\ threads[u].pc \in {"store_token", "store_value"}
         /\ threads[u].sig = sig
         /\ threads[u].hash_result = tok
         /\ Value(heap, cells, threads[u].res) = v

\* C14: memory-only wrapper called from several threads: under every
\* interleaving, a call that returns without running the wrapped function
\* returns a value that some run of the function, for the same signature,
\* computed under a token equal to the token the call computed.
C14_RacingHitsAreFresh ==
    MemoryOnly =>
      \A i \in 1..Len(trace) :
        IsHit(trace, i) =>
          ComputedUnder(trace[i].sig, trace[i].tok, trace[i].retVal)

\* C18: in every state, those between the steps of interleaved calls
\* included, every signature with a stored value has a stored token, and no
\* call has ended with the KeyError of a missing token.
C18_ValueImpliesToken ==
    /\ DOMAIN args_return_value_map \subseteq DOMAIN args_hash_result_map
    /\ \A i \in 1..Len(trace) : trace[i].outcome # "KeyError"

\* C18 witness: a thread is between line 74 and line 75 of the first store
\* for a signature (token stored, value not yet) while another thread with
\* the same signature is about to evaluate line 68.
C18_Witness ==
    \E t \in Threads, u \in Threads :
      /\ threads[t].pc = "store_value"
      /\ threads[t].sig \in DOMAIN args_hash_result_map
      /\ threads[t].sig \notin DOMAIN args_return_value_map
      /\ threads[u].pc = "in"
      /\ threads[u].sig = threads[t].sig

\* C19: whenever a thread is inside the wrapper past its first step, that
\* is at every lookup in either tier and at every run of the wrapped
\* function, retain_hash_fn has been called exactly once in this call, with
\* the arguments of the call, whether or not the signature has an entry.
C19_FreshnessFirst ==
    \A t \in Threads :
      threads[t].pc # "idle" => threads[t].hashCalls = threads[t].a

\* C19 witness: a call that found an entry for its signature when it began
\* is about to read the stored value, having called retain_hash_fn once.
C19_Witness ==
    \E t \in Threads :
      /\ threads[t].pc = "read"
      /\ threads[t].rec[1].preObj # 0
      /\ Len(threads[t].hashCalls) = 1
      /\ threads[t].hashCalls = threads[t].a

====
